---- MODULE Spec2Model ----
(***************************************************************************)
(* Model of glom/server.py: the ingestion and content-deduplication        *)
(* pipeline of GlomServer (add_item -> glom_media -> download_media).      *)
(*                                                                         *)
(* Bytes are small naturals and files are sequences of bytes.  A gzip      *)
(* member is modelled as  <<Magic, n>> \o body \o <<Crc(body)>>  with      *)
(* Len(body) = n (a stored block with a length prefix and a checksum       *)
(* trailer); members may be concatenated and zero padded, as the gzip      *)
(* module accepts.  MD5 is idealised as collision free: the digest of a    *)
(* byte string is the tagged byte string itself.  All modelled files are   *)
(* shorter than one read block and one download chunk.                     *)
(***************************************************************************)
EXTENDS Integers, Sequences, FiniteSets, TLC

\* ------------------------------------------------------------------ bounds
\* number of ingestion requests that pass validation
MaxItems == 2
\* longest payload of the fingerprint specification SpecFP
MaxLen == 3
\* largest byte value of the payloads of SpecFP
MaxByte == 2

\* ------------------------------------------------------------- null values
\* Python's None, for a nullable field or result (a value v is <<v>>-free:
\* digests and MIME types are non-empty tuples, so None is distinct from both)
None == <<>>

\* ------------------------------------------------------------ byte strings
Min(a, b) == IF a < b THEN a ELSE b

RECURSIVE Sum(_)
Sum(s) == IF s = <<>> THEN 0 ELSE Head(s) + Sum(Tail(s))

\* first byte of the gzip header
Magic == 2

\* checksum kept in the member's trailer
Crc(body) == Sum(body) % (Magic + 1)

\* what a gzip-compressing sender produces for `body`
Gzip(body) == <<Magic, Len(body)>> \o body \o <<Crc(body)>>

\* the zero padding the gzip reader skips after a member
RECURSIVE SkipZeros(_)
SkipZeros(s) == IF s # <<>> /\ Head(s) = 0 THEN SkipZeros(Tail(s)) ELSE s

\* gzip.open(path).read(blocksize) on a file shorter than one block: the
\* decompressed data, or the exception the reader raises.
\*   kind "data"     : every member decoded, `data` is their concatenation
\*   kind "OSError"  : gzip.BadGzipFile (bad magic, bad checksum, trailing garbage)
\*   kind "EOFError" : the stream ends inside a member
RECURSIVE GzipMembers(_, _)
GzipMembers(rest, acc) ==
    IF rest[1] # Magic THEN [kind |-> "OSError", data |-> <<>>]
    ELSE IF Len(rest) < 2 THEN [kind |-> "EOFError", data |-> <<>>]
    ELSE LET n == rest[2]
         IN  IF Len(rest) < 3 + n THEN [kind |-> "EOFError", data |-> <<>>]
             ELSE LET body  == SubSeq(rest, 3, 2 + n)
                      after == SkipZeros(SubSeq(rest, 4 + n, Len(rest)))
                  IN  IF rest[3 + n] # Crc(body)
                        THEN [kind |-> "OSError", data |-> <<>>]
                      ELSE IF after = <<>>
                        THEN [kind |-> "data", data |-> acc \o body]
                      ELSE GzipMembers(after, acc \o body)

GzipRead(file) ==
    IF file = <<>> THEN [kind |-> "data", data |-> <<>>]
    ELSE GzipMembers(file, <<>>)

\* hashlib.md5().hexdigest() of the bytes fed to update()
hexdigest(fed) == <<"md5", fed>>

blocksize == 65536

\* the read loop: every block of `data` is fed to the accumulator in order
RECURSIVE HashBlocks(_, _)
HashBlocks(data, fed) ==
    IF Len(data) = 0 THEN fed
    ELSE LET n == Min(blocksize, Len(data))
         IN  HashBlocks(SubSeq(data, n + 1, Len(data)), fed \o SubSeq(data, 1, n))

\* variant: the file is always read as it is
get_file_fingerprint_raw(file) ==
    [raised |-> FALSE, digest |-> hexdigest(HashBlocks(file, <<>>))]

\* get_file_fingerprint: the digest, or raised = TRUE when the exception of
\* the gzip reader is not an OSError and leaves the function
get_file_fingerprint(file) ==
    LET r == GzipRead(file)
    IN  IF r.kind = "data"
          THEN [raised |-> FALSE, digest |-> hexdigest(HashBlocks(r.data, <<>>))]
        ELSE IF r.kind = "OSError"
          THEN [raised |-> FALSE, digest |-> hexdigest(HashBlocks(file, <<>>))]
        ELSE [raised |-> TRUE, digest |-> None]

\* magic.from_file(path, mime=True): the type is sniffed from the leading bytes
from_file(file) ==
    IF file = <<>> THEN <<"inode/x-empty">>
    ELSE IF Head(file) = Magic THEN <<"application/gzip">>
    ELSE <<"application/type", Head(file)>>

\* ---------------------------------------------------------------- requests
REQUIRED_FIELDS == <<"height", "media_type", "src", "tags", "title", "username", "width">>

FieldSet == {REQUIRED_FIELDS[i] : i \in 1..Len(REQUIRED_FIELDS)}

\* validate_item: None when every required field is present, else the
\* message of the ItemValidationException raised for the first missing one
RECURSIVE FirstMissing(_, _)
FirstMissing(data, i) ==
    IF i > Len(REQUIRED_FIELDS) THEN None
    ELSE IF REQUIRED_FIELDS[i] \notin DOMAIN data
      THEN <<"Expected required field", REQUIRED_FIELDS[i]>>
    ELSE FirstMissing(data, i + 1)

\* variant: the loop starts one field late
validate_item_skips_first(data) == FirstMissing(data, 2)

validate_item(data) == FirstMissing(data, 1)

\* the content the remote server delivers for a source URL
Hello == <<1, 0>>

Remote(src) ==
    CASE src = "raw"   -> Hello
      [] src = "gz"    -> Gzip(Hello)
      [] src = "cut"   -> SubSeq(Gzip(Hello), 1, Len(Gzip(Hello)) - 1)
      [] src = "other" -> <<0, 1>>

\* the complete item descriptions clients send
Items ==
    { [height |-> 1, media_type |-> "image", src |-> u, tags |-> {"t"},
       title |-> "a", username |-> "u", width |-> 1] : u \in {"raw", "cut", "other"} }
      \cup
    { [height |-> 2, media_type |-> "video", src |-> "gz", tags |-> {},
       title |-> "b", username |-> "v", width |-> 3] }

Restrict(item, S) == [f \in S |-> item[f]]

\* the JSON bodies that lack fields: any subset of the fields may be present
Incomplete == { Restrict(item, S) : item \in Items, S \in (SUBSET FieldSet) \ {FieldSet} }

\* the incomplete bodies sent to the running server: one field left out, or
\* an empty object
Rejectable ==
    { Restrict(item, FieldSet \ {f}) : item \in Items, f \in FieldSet }
      \cup { Restrict(item, {}) : item \in Items }

\* ------------------------------------------------------------------- state
VARIABLES
    db,        \* self.db.media: the documents, in natural (insertion) order
    files,     \* the storage directory: file name -> bytes
    tasks,     \* the download_media threads: filename -> locals and position
    handlers,  \* the add_item calls past insert_one that have not returned
    issued,    \* how many uuid4 identifiers have been generated
    response,  \* the HTTP response last sent by add_item
    probe,     \* a payload and its two fingerprints (SpecFP only)
    vprobe,    \* a request body and its validation result (SpecValidate only)
    server     \* self.server_thread and the position of a stop() call

vars == <<db, files, tasks, handlers, issued, response, probe, vprobe, server>>

NoResponse == [status |-> 0, body |-> None]
NoProbe == [payload |-> <<>>, raw |-> None, gz |-> None]
NoVProbe == [data |-> <<>>, done |-> FALSE, error |-> None]

\* __init__ leaves the server thread uncreated; no stop() call is under way
NotStarted == [thread |-> "unstarted", pending |-> FALSE, stop |-> "idle"]

Init ==
    /\ db = <<>>
    /\ files = <<>>
    /\ tasks = <<>>
    /\ handlers = <<>>
    /\ issued = 0
    /\ response = NoResponse
    /\ probe = NoProbe
    /\ vprobe = NoVProbe
    /\ server = NotStarted

\* ------------------------------------------------------------ run and stop
\* the request-serving thread runs: routes are dispatched only while it does
Serving == server.thread = "alive"

\* run(): server_thread is created around app.run and started
Run ==
    /\ server.thread = "unstarted"
    /\ server' = [server EXCEPT !.thread = "alive"]
    /\ UNCHANGED <<db, files, tasks, handlers, issued, response, probe, vprobe>>

\* stop(), first statement: PyThreadState_SetAsyncExc(server_thread.ident,
\* KeyboardInterrupt). Its return value, the number of thread states the
\* identifier matched, is dropped: the exception is either left pending in
\* the server thread or set in no thread at all. The caller goes on to
\* server_thread.join() in both cases.
Stop ==
    /\ Serving
    /\ server.stop = "idle"
    /\ \E matched \in BOOLEAN :
           server' = [server EXCEPT !.pending = matched, !.stop = "joining"]
    /\ UNCHANGED <<db, files, tasks, handlers, issued, response, probe, vprobe>>

\* the pending KeyboardInterrupt is raised in the server thread, which
\* ends; the handlers it was running end with it, where they stand
Interrupted ==
    /\ Serving
    /\ server.pending
    /\ server' = [server EXCEPT !.thread = "ended", !.pending = FALSE]
    /\ UNCHANGED <<db, files, tasks, handlers, issued, response, probe, vprobe>>

\* variant: stop() also joins every download_media thread
StopJoin_joins_tasks ==
    /\ server.stop = "joining"
    /\ server.thread = "ended"
    /\ \A id \in DOMAIN tasks : tasks[id].pc \in {"done", "failed"}
    /\ server' = [server EXCEPT !.stop = "returned"]
    /\ UNCHANGED <<db, files, tasks, handlers, issued, response, probe, vprobe>>

\* stop(), second statement: server_thread.join() returns once the server
\* thread has ended, and stop() returns
StopJoin ==
    /\ server.stop = "joining"
    /\ server.thread = "ended"
    /\ server' = [server EXCEPT !.stop = "returned"]
    /\ UNCHANGED <<db, files, tasks, handlers, issued, response, probe, vprobe>>

\* ----------------------------------------------------------- the collection
Indices(coll, field, value) == {i \in 1..Len(coll) : coll[i][field] = value}

\* variant: the query ignores its filter
find_one_unfiltered(coll, field, value) ==
    IF coll = <<>> THEN {None} ELSE {<<coll[i]>> : i \in 1..Len(coll)}

\* find_one({field: value}): None or one matching document.  Without a sort
\* the store returns the first match in natural order, which it does not
\* promise to be insertion order: any match may be returned.
find_one(coll, field, value) ==
    IF Indices(coll, field, value) = {} THEN {None}
    ELSE {<<coll[i]>> : i \in Indices(coll, field, value)}

\* $set: only the named fields change
Set(doc, upd) == [f \in DOMAIN doc |-> IF f \in DOMAIN upd THEN upd[f] ELSE doc[f]]

\* update_one({field: value}, {'$set': upd}): one matching document is
\* updated, none when nothing matches
update_one(coll, field, value, upd) ==
    IF Indices(coll, field, value) = {} THEN {coll}
    ELSE {[coll EXCEPT ![i] = Set(@, upd)] : i \in Indices(coll, field, value)}

\* get_item(file_id): the responses the route may send, the file of that name
\* served under the mime_type of a record found by {'filename': file_id}
get_item(file_id) ==
    {[mimetype |-> r[1].mime_type, body |-> files[file_id]] :
        r \in find_one(db, "filename", file_id) \ {None}}

\* ------------------------------------------------------------------ add_item
\* variant: the generator repeats itself
uuid4_repeats(n) == 1

\* uuid.uuid4().hex: an identifier never generated before
uuid4(n) == n + 1

NewDoc(new_id, data) ==
    [_id |-> new_id, filename |-> new_id, fingerprint |-> None,
     height |-> data.height, media_type |-> data.media_type, mime_type |-> None,
     processed |-> FALSE, src |-> data.src, tags |-> data.tags,
     title |-> data.title, username |-> data.username, width |-> data.width]

Extend(f, k, v) == [x \in DOMAIN f \cup {k} |-> IF x = k THEN v ELSE f[x]]
Drop(f, k) == [x \in DOMAIN f \ {k} |-> f[x]]

\* bottle.request.json is None: abort(415)
AddItemNoJson ==
    /\ Serving
    /\ response' = [status |-> 415, body |-> <<"Content-Type must be application/json">>]
    /\ UNCHANGED <<db, files, tasks, handlers, issued, probe, vprobe, server>>

\* variant: the document is built with defaults and inserted before the
\* validation result is looked at
AddItemInvalid_after_insert(data) ==
    /\ Serving
    /\ validate_item(data) # None
    /\ issued < MaxItems
    /\ db' = Append(db, NewDoc(uuid4(issued),
                 [f \in FieldSet |-> IF f \in DOMAIN data THEN data[f] ELSE None]))
    /\ issued' = issued + 1
    /\ response' = [status |-> 400, body |-> validate_item(data)]
    /\ UNCHANGED <<files, tasks, handlers, probe, vprobe, server>>

\* validate_item raises: abort(400, repr(e))
AddItemInvalid(data) ==
    /\ Serving
    /\ validate_item(data) # None
    /\ response' = [status |-> 400, body |-> validate_item(data)]
    /\ UNCHANGED <<db, files, tasks, handlers, issued, probe, vprobe, server>>

\* validation passes: new_id, doc, insert_one(doc)
AddItemInsert(data) ==
    /\ Serving
    /\ validate_item(data) = None
    /\ issued < MaxItems
    /\ LET new_id == uuid4(issued)
           doc == NewDoc(new_id, data)
       IN  /\ db' = Append(db, doc)
           /\ handlers' = Extend(handlers, new_id, [stage |-> "inserted", doc |-> doc])
    /\ issued' = issued + 1
    /\ UNCHANGED <<files, tasks, response, probe, vprobe, server>>

\* the locals of a download_media thread that has just been started; `at`
\* is the step whose exception ended the thread, None while none has
NewTask(data) ==
    [pc |-> "begin", at |-> None, data |-> data, filehash |-> None,
     mime_type |-> None, same_file |-> None]

\* glom_media(doc): thr.start()
GlomMedia(id) ==
    /\ Serving
    /\ id \in DOMAIN handlers
    /\ handlers[id].stage = "inserted"
    /\ tasks' = Extend(tasks, id, NewTask(handlers[id].doc))
    /\ handlers' = [handlers EXCEPT ![id].stage = "launched"]
    /\ UNCHANGED <<db, files, issued, response, probe, vprobe, server>>

\* variant: the handler joins the thread before it returns
AddItemReturn_joins(id) ==
    /\ Serving
    /\ id \in DOMAIN handlers
    /\ handlers[id].stage = "launched"
    /\ tasks[id].pc \in {"done", "failed"}
    /\ handlers' = [x \in DOMAIN handlers \ {id} |-> handlers[x]]
    /\ response' = [status |-> 200, body |-> None]
    /\ UNCHANGED <<db, files, tasks, issued, probe, vprobe, server>>

\* add_item returns after glom_media: 200 with an empty body
AddItemReturn(id) ==
    /\ Serving
    /\ id \in DOMAIN handlers
    /\ handlers[id].stage = "launched"
    /\ handlers' = Drop(handlers, id)
    /\ response' = [status |-> 200, body |-> None]
    /\ UNCHANGED <<db, files, tasks, issued, probe, vprobe, server>>

\* ------------------------------------------------------------ download_media
At(id, pc) == id \in DOMAIN tasks /\ tasks[id].pc = pc

chunk_size(data) == IF data.media_type = "video" THEN 1024 * 1024 ELSE 1024

\* begin_download: requests.get and open(path, 'wb') create the empty file
BeginDownload(id) ==
    /\ At(id, "begin")
    /\ files' = Extend(files, tasks[id].data.filename, <<>>)
    /\ tasks' = [tasks EXCEPT ![id].pc = "write"]
    /\ UNCHANGED <<db, handlers, issued, response, probe, vprobe, server>>

\* begin_download: one pass of the iter_content loop; the function returns
\* when the content is exhausted
WriteChunk(id) ==
    /\ At(id, "write")
    /\ LET name    == tasks[id].data.filename
           content == Remote(tasks[id].data.src)
           done    == Len(files[name])
           upto    == Min(done + chunk_size(tasks[id].data), Len(content))
       IN  /\ files' = [files EXCEPT ![name] = @ \o SubSeq(content, done + 1, upto)]
           /\ tasks' = [tasks EXCEPT ![id].pc = IF upto = Len(content) THEN "hash" ELSE "write"]
    /\ UNCHANGED <<db, handlers, issued, response, probe, vprobe, server>>

\* variant: the failing thread removes what it has written
Fail_cleans_up(id) ==
    /\ id \in DOMAIN tasks
    /\ tasks[id].pc \in {"begin", "write", "hash", "find"}
    /\ tasks' = [tasks EXCEPT ![id].pc = "failed", ![id].at = <<tasks[id].pc>>]
    /\ files' = [x \in DOMAIN files \ {tasks[id].data.filename} |-> files[x]]
    /\ UNCHANGED <<db, handlers, issued, response, probe, vprobe, server>>

\* an exception of the network, the disk or the store leaves download_media:
\* the thread ends, nothing catches or reports it
Fail(id) ==
    /\ id \in DOMAIN tasks
    /\ tasks[id].pc \in {"begin", "write", "hash", "find"}
    /\ tasks' = [tasks EXCEPT ![id].pc = "failed", ![id].at = <<tasks[id].pc>>]
    /\ UNCHANGED <<db, files, handlers, issued, response, probe, vprobe, server>>

\* filehash = get_file_fingerprint(file_location); mime_type = magic.from_file(...)
Inspect(id) ==
    /\ At(id, "hash")
    /\ LET file == files[tasks[id].data.filename]
           fp   == get_file_fingerprint(file)
       IN  tasks' = IF fp.raised
                      THEN [tasks EXCEPT ![id].pc = "failed", ![id].at = <<"hash">>]
                      ELSE [tasks EXCEPT ![id].pc = "find",
                                         ![id].filehash = fp.digest,
                                         ![id].mime_type = from_file(file)]
    /\ UNCHANGED <<db, files, handlers, issued, response, probe, vprobe, server>>

\* same_file = self.db.media.find_one({'fingerprint': filehash})
FindOne(id) ==
    /\ At(id, "find")
    /\ \E found \in find_one(db, "fingerprint", tasks[id].filehash) :
          tasks' = [tasks EXCEPT ![id].pc = "update", ![id].same_file = found]
    /\ UNCHANGED <<db, files, handlers, issued, response, probe, vprobe, server>>

\* variant: the branch forgets the MIME type
MatchSet_null_mime(same_file, filehash, mime_type) ==
    [filename |-> same_file.filename, fingerprint |-> filehash, processed |-> TRUE]

\* variant: the branch forgets to repoint the record
MatchSet_keeps_filename(same_file, filehash, mime_type) ==
    [fingerprint |-> filehash, mime_type |-> mime_type, processed |-> TRUE]

\* variant: the branch sets every field of the document it found
MatchSet_copies_doc(same_file, filehash, mime_type) ==
    [same_file EXCEPT !.fingerprint = filehash, !.mime_type = mime_type,
                      !.processed = TRUE]

\* the $set document of the branch "if same_file"
MatchSet(same_file, filehash, mime_type) ==
    [filename |-> same_file.filename, fingerprint |-> filehash,
     mime_type |-> mime_type, processed |-> TRUE]

\* variant: the branch forgets the processed flag
NoMatchSet_unflagged(filehash, mime_type) ==
    [fingerprint |-> filehash, mime_type |-> mime_type]

\* the $set document of the branch "else"
NoMatchSet(filehash, mime_type) ==
    [fingerprint |-> filehash, mime_type |-> mime_type, processed |-> TRUE]

\* variant: the match branch filters on the file it found
UpdateFilter_found(t) ==
    IF t.same_file # None THEN t.same_file[1].filename ELSE t.data.filename

\* the filter of both update_one calls: {'filename': data['filename']}
UpdateFilter(t) == t.data.filename

\* variant: the match branch ends after its update_one
UpdateOne_skips_remove(id) ==
    /\ At(id, "update")
    /\ LET t == tasks[id]
       IN  IF t.same_file # None
             THEN db' \in update_one(db, "filename", UpdateFilter(t),
                              MatchSet(t.same_file[1], t.filehash, t.mime_type))
             ELSE db' \in update_one(db, "filename", UpdateFilter(t),
                              NoMatchSet(t.filehash, t.mime_type))
    /\ tasks' = [tasks EXCEPT ![id].pc = "done"]
    /\ UNCHANGED <<files, handlers, issued, response, probe, vprobe, server>>

\* update_one of either branch
UpdateOne(id) ==
    /\ At(id, "update")
    /\ LET t == tasks[id]
       IN  IF t.same_file # None
             THEN /\ db' \in update_one(db, "filename", UpdateFilter(t),
                                 MatchSet(t.same_file[1], t.filehash, t.mime_type))
                  /\ tasks' = [tasks EXCEPT ![id].pc = "remove"]
             ELSE /\ db' \in update_one(db, "filename", UpdateFilter(t),
                                 NoMatchSet(t.filehash, t.mime_type))
                  /\ tasks' = [tasks EXCEPT ![id].pc = "done"]
    /\ UNCHANGED <<files, handlers, issued, response, probe, vprobe, server>>

\* variant: the duplicate is left in storage
Remove_keeps_file(id) ==
    /\ At(id, "remove")
    /\ tasks' = [tasks EXCEPT ![id].pc = "done"]
    /\ UNCHANGED <<db, files, handlers, issued, response, probe, vprobe, server>>

\* os.remove(file_location), the last statement of the branch "if same_file";
\* FileNotFoundError ends the thread when the file is not there
Remove(id) ==
    /\ At(id, "remove")
    /\ IF tasks[id].data.filename \in DOMAIN files
         THEN /\ files' = Drop(files, tasks[id].data.filename)
              /\ tasks' = [tasks EXCEPT ![id].pc = "done"]
         ELSE /\ files' = files
              /\ tasks' = [tasks EXCEPT ![id].pc = "failed", ![id].at = <<"remove">>]
    /\ UNCHANGED <<db, handlers, issued, response, probe, vprobe, server>>

\* --------------------------------------------------------------------- spec
Ids == 1..MaxItems

Next ==
    \/ Run
    \/ \E data \in Items : AddItemInsert(data)
    \/ \E id \in Ids : GlomMedia(id)
    \/ \E id \in Ids : AddItemReturn(id)
    \/ \E id \in Ids : BeginDownload(id)
    \/ \E id \in Ids : WriteChunk(id)
    \/ \E id \in Ids : Fail(id)
    \/ \E id \in Ids : Inspect(id)
    \/ \E id \in Ids : FindOne(id)
    \/ \E id \in Ids : UpdateOne(id)
    \/ \E id \in Ids : Remove(id)

Spec == Init /\ [][Next]_vars

\* the scheduler lets every started handler and every started thread take
\* its next step: no thread that can move waits forever
Fairness ==
    \A id \in Ids :
        /\ WF_vars(GlomMedia(id))
        /\ WF_vars(BeginDownload(id))
        /\ WF_vars(WriteChunk(id))
        /\ WF_vars(Inspect(id))
        /\ WF_vars(FindOne(id))
        /\ WF_vars(UpdateOne(id))
        /\ WF_vars(Remove(id))

SpecLive == Spec /\ Fairness

\* the same server, also receiving the requests add_item rejects
NextIntake ==
    \/ Next
    \/ AddItemNoJson
    \/ \E data \in Rejectable : AddItemInvalid(data)

SpecIntake == Init /\ [][NextIntake]_vars

\* the same server, with a caller that may stop it at any moment
NextStop ==
    \/ Next
    \/ Stop
    \/ Interrupted
    \/ StopJoin

SpecStop == Init /\ [][NextStop]_vars

\* ------------------------------------------- get_file_fingerprint on its own
\* the byte strings of at most n bytes
RECURSIVE Strings(_)
Strings(n) ==
    IF n = 0 THEN {<<>>}
    ELSE Strings(n - 1) \cup
         {Append(p, b) : p \in {q \in Strings(n - 1) : Len(q) = n - 1}, b \in 0..MaxByte}

Payloads == Strings(MaxLen)

InitFP ==
    /\ db = <<>> /\ files = <<>> /\ tasks = <<>> /\ handlers = <<>>
    /\ issued = 0 /\ response = NoResponse /\ vprobe = NoVProbe
    /\ server = NotStarted
    /\ probe \in {[payload |-> p, raw |-> None, gz |-> None] : p \in Payloads}

\* the fingerprint of a file that holds the payload as it is
FingerprintRaw ==
    /\ probe.raw = None
    /\ probe' = [probe EXCEPT !.raw = <<get_file_fingerprint(probe.payload)>>]
    /\ UNCHANGED <<db, files, tasks, handlers, issued, response, vprobe, server>>

\* the fingerprint of a file that holds the payload gzip-compressed
FingerprintGz ==
    /\ probe.gz = None
    /\ probe' = [probe EXCEPT !.gz = <<get_file_fingerprint(Gzip(probe.payload))>>]
    /\ UNCHANGED <<db, files, tasks, handlers, issued, response, vprobe, server>>

NextFP == FingerprintRaw \/ FingerprintGz

SpecFP == InitFP /\ [][NextFP]_vars

\* --------------------------------------------------- validate_item on its own
InitValidate ==
    /\ db = <<>> /\ files = <<>> /\ tasks = <<>> /\ handlers = <<>>
    /\ issued = 0 /\ response = NoResponse /\ probe = NoProbe
    /\ server = NotStarted
    /\ vprobe \in {[data |-> d, done |-> FALSE, error |-> None] : d \in Items \cup Incomplete}

Validate ==
    /\ ~vprobe.done
    /\ vprobe' = [vprobe EXCEPT !.done = TRUE, !.error = validate_item(vprobe.data)]
    /\ UNCHANGED <<db, files, tasks, handlers, issued, response, probe, server>>

NextValidate == Validate

SpecValidate == InitValidate /\ [][NextValidate]_vars

\* ================================================================== claims
Pos == 1..Len(db)

Finished(id) == id \in DOMAIN tasks /\ tasks[id].pc = "done"

\* a processed record whose filename was rewritten to another record's file
Merged(r) == r.processed /\ r.filename # r._id

\* a processed record that kept the filename generated for it
Canonical(r) == r.processed /\ r.filename = r._id

\* the two records of a non-racing pair: both tasks finished with the same
\* fingerprint, the task of j queried after the update of i was applied, and
\* no third record carries that fingerprint
NonRacingPair(i, j) ==
    /\ i # j
    /\ Finished(db[i]._id) /\ Finished(db[j]._id)
    /\ tasks[db[i]._id].filehash = tasks[db[j]._id].filehash
    /\ tasks[db[j]._id].same_file # None
    /\ \A k \in Pos \ {i, j} : db[k].fingerprint # db[i].fingerprint

\* C1: of two finished ingestions with equal fingerprints whose dedup
\* decisions did not race, exactly one downloaded file survives in storage
\* and the filename of both records is the name of that file.
C1_OneFileSurvives ==
    \A i, j \in Pos :
        NonRacingPair(i, j) =>
            /\ Cardinality({db[i]._id, db[j]._id} \cap DOMAIN files) = 1
            /\ db[i].filename = db[j].filename
            /\ db[i].filename \in {db[i]._id, db[j]._id} \cap DOMAIN files

\* scenario B: the gzip item is ingested after the raw one and merged into it
C1_Witness ==
    \E i, j \in Pos :
        /\ NonRacingPair(i, j)
        /\ db[i].src = "raw" /\ db[j].src = "gz"
        /\ db[j].filename = db[i]._id
        /\ db[j]._id \notin DOMAIN files

\* C2 as stated: no two distinct records carry the same filename.
C2_FilenameUnique ==
    \A i, j \in Pos : i # j => db[i].filename # db[j].filename

\* C2 amended: no two distinct unmerged records (pending or canonical) carry
\* the same filename; records that share a filename are processed, carry the
\* same fingerprint, and at least one of them is merged.
C2_FilenameUniqueUnlessMerged ==
    \A i, j \in Pos :
        (i # j /\ db[i].filename = db[j].filename) =>
            /\ Merged(db[i]) \/ Merged(db[j])
            /\ db[i].processed /\ db[j].processed
            /\ db[i].fingerprint = db[j].fingerprint

C2_Witness ==
    \E i, j \in Pos :
        /\ i # j /\ db[i].filename = db[j].filename
        /\ Canonical(db[i]) /\ Merged(db[j])

\* C3: for every record, fingerprint is null exactly when processed is
\* false; a processed record has fingerprint and mime_type set, and a
\* pending record has neither.
C3_FingerprintIffProcessed ==
    \A i \in Pos :
        /\ (db[i].fingerprint = None) <=> ~db[i].processed
        /\ db[i].processed => (db[i].fingerprint # None /\ db[i].mime_type # None)
        /\ ~db[i].processed => db[i].mime_type = None

C3_Witness ==
    \E i, j \in Pos :
        /\ db[i].processed /\ db[i].fingerprint # None /\ db[i].mime_type # None
        /\ ~db[j].processed /\ Finished(db[i]._id)

\* C4: a request that omits a required field is rejected with a validation
\* error, and the rejecting step inserts no record, launches no task, starts
\* no handler, generates no identifier and creates or removes no file.
C4_RejectionChangesNothing ==
    /\ [](\A data \in Rejectable :
             validate_item(data) # None /\ ~ENABLED AddItemInsert(data))
    /\ [][(response' # response /\ response'.status = 400) =>
             UNCHANGED <<db, files, tasks, handlers, issued>>]_vars

\* scenario C against a server that holds records, files and running tasks
C4_Witness ==
    /\ response = [status |-> 400, body |-> <<"Expected required field", "tags">>]
    /\ Len(db) > 0
    /\ DOMAIN files # {}
    /\ \E id \in DOMAIN tasks : tasks[id].pc \notin {"done", "failed"}

\* C5: a body that lacks exactly one required field is rejected with the
\* error naming that field, and a body holding all seven passes validation.
C5_NamesTheMissingField ==
    vprobe.done =>
        /\ \A f \in FieldSet :
              DOMAIN vprobe.data = FieldSet \ {f} =>
                  vprobe.error = <<"Expected required field", f>>
        /\ DOMAIN vprobe.data = FieldSet => vprobe.error = None

C5_Witness ==
    /\ vprobe.done
    /\ DOMAIN vprobe.data = FieldSet \ {"height"}
    /\ vprobe.error = <<"Expected required field", "height">>

Pending(r) == ~r.processed /\ r.fingerprint = None /\ r.mime_type = None

OldNames == {db[i].filename : i \in Pos} \cup DOMAIN files \cup DOMAIN tasks

\* C6: a valid request persists exactly one new pending record under a
\* filename not in use, then launches exactly one task carrying that record,
\* which starts at the head of the pipeline; the handler that has launched
\* its task can return whatever stage the task is at.
C6_InsertLaunchReturn ==
    /\ [](\A id \in DOMAIN handlers :
             handlers[id].stage = "launched" => ENABLED AddItemReturn(id))
    /\ [][/\ issued' # issued =>
                /\ Len(db') = Len(db) + 1
                /\ SubSeq(db', 1, Len(db)) = db
                /\ Pending(db'[Len(db')])
                /\ db'[Len(db')].filename \notin OldNames
                /\ tasks' = tasks /\ files' = files
          /\ DOMAIN tasks' # DOMAIN tasks =>
                \E id \in DOMAIN tasks' \ DOMAIN tasks :
                    /\ DOMAIN tasks' = DOMAIN tasks \cup {id}
                    /\ \E i \in Pos : db[i] = tasks'[id].data
                                        /\ db[i].filename = id /\ Pending(db[i])
                    /\ tasks'[id].pc = "begin"
                    /\ db' = db /\ files' = files
                    /\ \A other \in DOMAIN tasks : tasks'[other] = tasks[other]
       ]_vars

\* the handler has returned and the download has not started
C6_Witness ==
    \E id \in DOMAIN tasks :
        /\ id \notin DOMAIN handlers
        /\ response.status = 200
        /\ tasks[id].pc = "begin"
        /\ \E i \in Pos : db[i].filename = id /\ Pending(db[i])

\* C7: no record is removed or reordered; a processed record never changes;
\* a record changes only from pending to processed, in the update_one step
\* of its own task, and that step changes no other record.
C7_MutatedOnce ==
    [][/\ Len(db') >= Len(db)
       /\ \A i \in Pos :
            /\ db'[i]._id = db[i]._id
            /\ db[i].processed => db'[i] = db[i]
            /\ db'[i] # db[i] =>
                 /\ ~db[i].processed /\ db'[i].processed
                 /\ At(db[i]._id, "update")
                 /\ tasks'[db[i]._id].pc \in {"remove", "done"}
                 /\ \A j \in Pos \ {i} : db'[j] = db[j]
      ]_vars

\* a canonical record outlived the merge of a later record into it
C7_Witness ==
    \E i, j \in Pos :
        /\ Canonical(db[i]) /\ Merged(db[j]) /\ db[j].filename = db[i]._id
        /\ Finished(db[i]._id) /\ Finished(db[j]._id)

Failed(id) == id \in DOMAIN tasks /\ tasks[id].pc = "failed"

IsPrefix(p, q) == Len(p) <= Len(q) /\ SubSeq(q, 1, Len(p)) = p

\* C8: the record of a failed task is the pending document its task was
\* started with (own filename, no field added or changed); once the file was opened it stays in storage, a prefix of
\* the content and a strict one when the transfer failed; a failed task
\* never moves again, and the failing step changes no record and no file.
C8_FailureLeavesPending ==
    /\ [](\A id \in DOMAIN tasks : Failed(id) =>
            /\ \E i \in Pos : /\ db[i].filename = id /\ Pending(db[i])
                               /\ db[i] = tasks[id].data
            /\ tasks[id].at # <<"begin">> =>
                  /\ id \in DOMAIN files
                  /\ IsPrefix(files[id], Remote(tasks[id].data.src))
            /\ tasks[id].at = <<"write">> => files[id] # Remote(tasks[id].data.src))
    /\ [][\A id \in DOMAIN tasks :
            /\ Failed(id) => tasks'[id] = tasks[id]
            /\ (~Failed(id) /\ tasks'[id].pc = "failed") => (db' = db /\ files' = files)
         ]_vars

\* a transfer failed midway while another record was processed
C8_Witness ==
    \E id \in DOMAIN tasks :
        /\ Failed(id) /\ tasks[id].at = <<"write">>
        /\ id \in DOMAIN files /\ files[id] # Remote(tasks[id].data.src)
        /\ \E i \in Pos : db[i]._id # id /\ db[i].processed

\* both tasks finished with the same fingerprint and neither query matched
Raced(i, j) ==
    /\ i # j
    /\ Finished(db[i]._id) /\ Finished(db[j]._id)
    /\ tasks[db[i]._id].filehash = tasks[db[j]._id].filehash
    /\ tasks[db[i]._id].same_file = None
    /\ tasks[db[j]._id].same_file = None

\* C9: two finished ingestions of identical content whose queries both ran
\* before either update are both processed under their own filename with the
\* same fingerprint, and each keeps its own file; such a pair is reachable.
C9_RaceKeepsBoth ==
    \A i, j \in Pos :
        Raced(i, j) =>
            /\ Canonical(db[i]) /\ Canonical(db[j])
            /\ db[i].fingerprint = db[j].fingerprint
            /\ db[i].fingerprint = tasks[db[i]._id].filehash
            /\ db[i].filename # db[j].filename
            /\ {db[i].filename, db[j].filename} \subseteq DOMAIN files

C9_Witness ==
    \E i, j \in Pos :
        /\ Raced(i, j)
        /\ Canonical(db[i]) /\ Canonical(db[j])
        /\ db[i].fingerprint = db[j].fingerprint
        /\ {db[i]._id, db[j]._id} \subseteq DOMAIN files

\* both fingerprint runs of the payload have been made
Probed == probe.raw # None /\ probe.gz # None

\* C10 as stated: for every payload, whenever both files are fingerprinted,
\* the fingerprint of the file holding the payload raw equals the fingerprint
\* of the file holding it gzip-compressed.
C10_SameDigestEveryPayload ==
    (Probed /\ ~probe.raw[1].raised /\ ~probe.gz[1].raised) =>
        probe.raw[1].digest = probe.gz[1].digest

\* C10 amended: the two fingerprints are equal for every payload that does
\* not itself begin with the gzip magic; both are the digest of the payload.
C10_SameDigestUnframedPayload ==
    (Probed /\ (probe.payload = <<>> \/ Head(probe.payload) # Magic)) =>
        /\ ~probe.raw[1].raised /\ ~probe.gz[1].raised
        /\ probe.raw[1].digest = probe.gz[1].digest
        /\ probe.raw[1].digest = hexdigest(probe.payload)

C10_Witness ==
    /\ Probed
    /\ probe.payload = Hello
    /\ probe.raw[1].digest = probe.gz[1].digest

\* C11 as stated: in every reachable state the file a merged record was
\* downloaded to has been deleted from storage.
C11_MergedFileDeleted ==
    \A i \in Pos : Merged(db[i]) => db[i]._id \notin DOMAIN files

\* C11 amended: the file a merged record was downloaded to has been deleted
\* once the record's task has finished; while it is still in storage the
\* task stands between its update_one and its os.remove.
C11_MergedFileDeletedWhenFinished ==
    \A i \in Pos :
        Merged(db[i]) =>
            /\ Finished(db[i]._id) => db[i]._id \notin DOMAIN files
            /\ db[i]._id \in DOMAIN files => At(db[i]._id, "remove")

C11_Witness ==
    \E i \in Pos :
        /\ Merged(db[i]) /\ Finished(db[i]._id)
        /\ db[i]._id \notin DOMAIN files
        /\ db[i].filename \in DOMAIN files

\* C12: the filename of every processed record names a file in storage; a
\* step removes at most one file, the one downloaded by the task taking the
\* step, which stands after its match-branch update_one with its record
\* already repointed to another file.
C12_ProcessedFileExists ==
    /\ [](\A i \in Pos : db[i].processed => db[i].filename \in DOMAIN files)
    /\ [][\A f \in DOMAIN files \ DOMAIN files' :
             /\ DOMAIN files \ DOMAIN files' = {f}
             /\ At(f, "remove") /\ tasks[f].data.filename = f
             /\ tasks[f].same_file # None
             /\ \A i \in Pos : db[i].filename # f
             /\ \E i \in Pos : db[i]._id = f /\ Merged(db[i])
         ]_vars

\* a merged record names the file of another record after its own is gone
C12_Witness ==
    \E i, j \in Pos :
        /\ Merged(db[j]) /\ db[j].filename = db[i]._id /\ Canonical(db[i])
        /\ db[j]._id \notin DOMAIN files
        /\ db[i]._id \in DOMAIN files

\* C13: the document a task's query returned is never the task's own record:
\* it is another record, processed, carrying the queried fingerprint and not
\* the task's filename; no record is merged into itself, and a removed file
\* is named by no record.
C13_NeverMatchesItself ==
    /\ [](\A id \in DOMAIN tasks :
            tasks[id].same_file # None =>
                /\ tasks[id].same_file[1]._id # id
                /\ tasks[id].same_file[1].filename # tasks[id].data.filename
                /\ tasks[id].same_file[1].processed
                /\ tasks[id].same_file[1].fingerprint = tasks[id].filehash)
    /\ [](\A i \in Pos : At(db[i]._id, "find") => db[i].fingerprint = None)
    /\ [][\A f \in DOMAIN files \ DOMAIN files' :
             \A i \in Pos : db[i].filename # f /\ db'[i].filename # f]_vars

\* a query that matched, made while the task's own record was in the store
C13_Witness ==
    \E id \in DOMAIN tasks :
        /\ tasks[id].same_file # None
        /\ tasks[id].same_file[1]._id # id
        /\ tasks[id].pc = "done"
        /\ \E i \in Pos : db[i]._id = id /\ db[i].fingerprint = tasks[id].filehash

InStore(id) == \E i \in Pos : db[i]._id = id

\* the record of id is processed and its task has ended in one of the two
\* outcomes: canonical with its own file kept, or merged with it deleted
Outcome(id) ==
    /\ Finished(id)
    /\ \E i \in Pos :
         /\ db[i]._id = id
         /\ \/ Canonical(db[i]) /\ id \in DOMAIN files /\ tasks[id].same_file = None
            \/ Merged(db[i]) /\ id \notin DOMAIN files /\ tasks[id].same_file # None

\* C14: under fair scheduling every record created by intake is eventually
\* processed as canonical or as merged, unless a step of its pipeline fails
\* (records are never removed and both ends are final, so this is: from some
\* point on every record in the store has reached its end); while its task
\* holds the fingerprint and has not updated, the stored record is still the
\* pending document that was inserted.
C14_EventuallyProcessed ==
    /\ <>[](\A id \in Ids : InStore(id) => (Outcome(id) \/ Failed(id)))
    /\ [](\A id \in DOMAIN tasks :
            tasks[id].pc \in {"find", "update"} =>
                \E i \in Pos : db[i] = tasks[id].data /\ Pending(db[i]))

\* both outcomes side by side
C14_Witness ==
    \E a, b \in Ids :
        /\ Outcome(a) /\ Outcome(b)
        /\ tasks[a].same_file = None /\ tasks[b].same_file # None

\* the fields of a record on which a and b differ
Differ(a, b) == {f \in DOMAIN a \cup DOMAIN b :
                    f \notin DOMAIN a \/ f \notin DOMAIN b \/ a[f] # b[f]}

\* C15: the step that changes a record is the update_one of the record's own
\* task and changes no other record and no file; without a match only
\* fingerprint, mime_type and processed change and the task ends without
\* removing a file; with a match only filename, fingerprint, mime_type and
\* processed change.
C15_OnlyNamedFieldsChange ==
    [][\A i \in Pos :
          db'[i] # db[i] =>
             LET id == db[i]._id
             IN  /\ DOMAIN db'[i] = DOMAIN db[i]
                 /\ At(id, "update") /\ db[i].filename = tasks[id].data.filename
                 /\ files' = files
                 /\ \A j \in Pos \ {i} : db'[j] = db[j]
                 /\ Len(db') = Len(db)
                 /\ IF tasks[id].same_file = None
                      THEN /\ Differ(db[i], db'[i]) = {"fingerprint", "mime_type", "processed"}
                           /\ db'[i].filename = db[i].filename
                           /\ tasks'[id].pc = "done"
                      ELSE /\ Differ(db[i], db'[i]) \subseteq
                                {"filename", "fingerprint", "mime_type", "processed"}
                           /\ {"filename", "processed"} \subseteq Differ(db[i], db'[i])
      ]_vars

\* both branches have updated a record whose descriptive fields differ
C15_Witness ==
    \E i, j \in Pos :
        /\ Canonical(db[i]) /\ Merged(db[j]) /\ db[j].filename = db[i]._id
        /\ db[i].title # db[j].title /\ db[i].tags # db[j].tags
        /\ db[j].src = tasks[db[j]._id].data.src

\* C16: the mime_type of every processed record is the type sniffed from the
\* bytes of the file its filename names, records that share a filename carry
\* the same mime_type, and a file looked up through a processed record is
\* served under the type of its bytes.
C16_MimeTypeOfServedBytes ==
    /\ \A i \in Pos :
          (db[i].processed /\ db[i].filename \in DOMAIN files) =>
              db[i].mime_type = from_file(files[db[i].filename])
    /\ \A i, j \in Pos :
          (db[i].processed /\ db[j].processed /\ db[i].filename = db[j].filename) =>
              db[i].mime_type = db[j].mime_type
    /\ \A i \in Pos :
          (db[i].processed /\ db[i].filename \in DOMAIN files) =>
              \A resp \in get_item(db[i].filename) :
                  resp.mimetype # None => resp.mimetype = from_file(resp.body)

\* at least one task was launched and every launched task ran to its end
AllFinished == DOMAIN tasks # {} /\ \A id \in DOMAIN tasks : tasks[id].pc = "done"

\* C17: once every launched task has finished without failure, every file
\* in storage is named by the filename of a processed record.
C17_NoOrphanedFile ==
    AllFinished =>
        \A f \in DOMAIN files : \E i \in Pos : db[i].processed /\ db[i].filename = f

\* the end of a run with a merge, and the end of a dedup race
C17_Witness ==
    /\ AllFinished
    /\ Cardinality(DOMAIN tasks) = 2
    /\ DOMAIN files # {}
    /\ \E i, j \in Pos : Raced(i, j) \/ (Merged(db[j]) /\ db[j].filename = db[i]._id)

\* a download_media thread that was started and has not ended
InFlight(id) == id \in DOMAIN tasks /\ tasks[id].pc \notin {"done", "failed"}

\* the next step of a download_media thread
TaskStep(id) ==
    \/ BeginDownload(id) \/ WriteChunk(id) \/ Fail(id) \/ Inspect(id)
    \/ FindOne(id) \/ UpdateOne(id) \/ Remove(id)

\* C18: stop() interrupts and joins the server thread only. Once the server
\* thread has ended stop() can return whatever the download_media threads
\* are doing, every thread in flight can still take its next step in every
\* state of the server and of stop(), and no step of stop() or of the
\* interrupt changes a record, a file or a thread's locals.
C18_StopJoinsServerOnly ==
    /\ [](server.stop = "joining" /\ server.thread = "ended"
             => ENABLED (NextStop /\ server'.stop = "returned"))
    /\ [](\A id \in Ids : InFlight(id) => ENABLED TaskStep(id))
    /\ [][server' # server => UNCHANGED <<db, files, tasks, handlers, issued>>]_vars
    /\ [][tasks' # tasks => server' = server]_vars

\* stop() has returned while one thread is still downloading and another is
\* about to query the collection
C18_Witness ==
    /\ server.stop = "returned"
    /\ server.thread = "ended"
    /\ \E a, b \in Ids : At(a, "write") /\ At(b, "find")

====
